---- MODULE Spec2Model ----
(***************************************************************************)
(* Model of the Signal-Fire Connect client (src/src/index.ts, lines 1-433):*)
(* the connection state machine, the reconnection controller and the       *)
(* request/response correlator of class Connect.                           *)
(*                                                                         *)
(* Execution model.  JavaScript runs one handler at a time; every action   *)
(* below is one macrotask (a user call, a transport event, a timer) run to *)
(* completion together with the promise continuations it makes runnable    *)
(* (a released request(), the catch block of handleReconnect).            *)
(*                                                                         *)
(* Receivers.  Lines 290-292 hand the methods handleErrorEvent,            *)
(* handleMessageEvent and handleCloseEvent to socket.addEventListener      *)
(* without binding them, and an EventTarget calls a listener with `this`   *)
(* set to itself.  In these three listeners `this` is therefore the        *)
(* WebSocket, not the client: this.hadError is a property written on the   *)
(* transport, this.pendingResponses and this.socket are undefined, and     *)
(* this.dispatchEvent dispatches on the transport, where the listeners of  *)
(* the transport (these same three) receive the event.  The listeners of   *)
(* connect() are arrow functions and act on the client.                    *)
(* Event listeners registered by the user do not call back into the client *)
(* while an event is being dispatched.                                     *)
(*                                                                         *)
(* Platform.  The client calls the WebSocket of the platform it runs on:   *)
(* `new WebSocket(url, PROTOCOL)` (line 185) and `socket.close(code,       *)
(* reason)` (lines 125, 136, 148, 156, 201).  A WebSocket that follows the *)
(* WHATWG interface throws a SyntaxError from the constructor when the     *)
(* sub-protocol is not a token of RFC 6455 (PROTOCOL contains '@', a       *)
(* separator); close() throws an InvalidAccessError when the code is       *)
(* neither 1000 nor in 3000..4999 (the code passes 1002 and 1003), and     *)
(* then a SyntaxError when the reason is longer than 123 bytes (close() of *)
(* the client passes the caller's reason on, line 201).  The variable      *)
(* `platform` fixes, for a run, whether the constructor and close() make   *)
(* these checks ("whatwg": browsers, Node) or accept every argument        *)
(* ("any": a transport that does not validate).                            *)
(***************************************************************************)
EXTENDS Integers, Sequences, FiniteSets, TLC

\* ------------------------------------------------------------------ bounds
MaxSockets  == 2   \* transports tracked at the same time
MaxRequests == 2   \* request() calls in one run
MaxAttempts == 1   \* largest configured reconnectAttempts
MaxChains   == 2   \* reconnect timers and suspended urlTransform calls

\* --------------------------------------------------------------- constants
PROTOCOL == "Signal-Fire@3"
NoProtocol == ""
ConnectionStates ==
  {"new", "connecting", "connected", "reconnecting", "closing", "closed"}
Absent == "absent"
\* the addresses connect() is called with and urlTransform returns
AllUrls == {"ws://a", "ws://b"}
OneUrl == {"ws://a"}
NoUrl == "undefined"

\* the sub-protocol names that are not tokens ('@' is a separator), and the
\* close codes close() takes
NonTokens == {"Signal-Fire@3"}
ValidCloseCodes == {1000} \cup (3000..4999)
\* the longest close reason close() takes, in bytes of its UTF-8 encoding
ReasonLimit == 123
\* the platforms: what the WebSocket constructor checks, and what close()
\* checks of its code and of its reason
Platforms ==
  [ctor : {"whatwg", "any"}, closeCodes : {"whatwg", "any"},
   closeReasons : {"whatwg", "any"}]
\* the codes close() is called with by the user; 0: no code given
UserCloseCodes == {0, 1000, 1002}
\* the reasons close() is called with by the user, as their length in bytes;
\* 0: no reason given
UserCloseReasons == {0, 3, 124}
\* the reasons the connection attempt closes its transport with: 'invalid
\* protocol', 'expected a string', 'unable to parse message', 'expected
\* welcome message'
InvalidProtocolReason == 16
ExpectedStringReason == 17
UnableToParseReason == 23
ExpectedWelcomeReason == 24

VARIABLES
  platform,               \* the WebSocket implementation, fixed for the run
  reconnectOnClose,       \* configuration, fixed at construction
  reconnectOnError,
  reconnectAttempts,
  connectionState,        \* this.connectionState
  socket,                 \* this.socket: 0 is null, else a transport
  id,                     \* this.id
  hadError,               \* this.hadError
  reconnectAttemptsMade,  \* this.reconnectAttemptsMade
  reconnectTimeout,       \* this.reconnectTimeout
  previousUrl,            \* this.previousUrl
  pendingRequests,        \* this.pendingRequests: Set of waiters, insertion order
  pendingResponses,       \* this.pendingResponses: Map id -> resolver
  sockets,                \* the WebSocket objects created by connect()
  orphanTimers,           \* timers still running whose handle was overwritten
  transforms,             \* handleReconnect calls awaiting an async urlTransform
  reqs,                   \* the request() calls made so far
  sent,                   \* frames handed to socket.send, in order
  emitted,                \* events dispatched on the client by the last step, in order
  dispatchedOnSocket,     \* events dispatched on a transport by the last step:
                          \* [k: the transport, ev: the event], in order
  setCalls,               \* setConnectionState calls of the last step: <<from, to>>
  op,                     \* the last step: what ran and how it ended
  closeCall,              \* the latest close() call that found a transport
  chain                   \* since the last closure that scheduled a reconnection:
                          \* attempts started, attempts failed, "exceeded" errors

config == <<platform, reconnectOnClose, reconnectOnError, reconnectAttempts>>
vars == <<platform, reconnectOnClose, reconnectOnError, reconnectAttempts,
          connectionState, socket, id, hadError, reconnectAttemptsMade,
          reconnectTimeout, previousUrl, pendingRequests, pendingResponses, sockets,
          orphanTimers, transforms, reqs, sent, emitted, dispatchedOnSocket,
          setCalls, op, closeCall, chain>>

SocketIds == 1..MaxSockets
ReqIds == 1..MaxRequests

\* ------------------------------------------------------------------ frames
\* A frame as the message listeners see it.  kind: what `data` is ("binary":
\* not a string; "garbage": a string JSON.parse rejects; "null": the JSON text
\* null; "object": any other JSON value).  For an object, the fields the code
\* reads: cmd, ok, origin, id, and data (for welcome: the id it carries).
Frame(kind, cmd, ok, origin, fid, data) ==
  [kind |-> kind, cmd |-> cmd, ok |-> ok, origin |-> origin, id |-> fid, data |-> data]
Binary  == Frame("binary", Absent, Absent, Absent, 0, Absent)
Garbage == Frame("garbage", Absent, Absent, Absent, 0, Absent)
JsonNull == Frame("null", Absent, Absent, Absent, 0, Absent)
Welcome(data) == Frame("object", "welcome", Absent, Absent, 0, data)
Response(fid, ok, data) == Frame("object", Absent, ok, Absent, fid, data)
\* the `data` of an inbound request is written as the name of the one member
\* it holds ("offer", "answer", "candidate", or "payload" for any other), and
\* Absent when the frame has no data
DataOf(cmd) ==
  IF cmd \in {"offer", "answer"} THEN cmd ELSE IF cmd = "ice" THEN "candidate" ELSE "payload"
Inbound(cmd) == Frame("object", cmd, Absent, "peerB", 0, DataOf(cmd))
\* message.data.<key>: the member, or undefined when data has no such member
Member(data, key) == IF data = key THEN data ELSE "undefined"

WelcomeData == {Absent, "noid", "", "abc"}
NotWelcome == Frame("object", "offer", Absent, Absent, 0, "abc")
HandshakeFrames ==
  {Binary, Garbage, JsonNull, NotWelcome} \cup {Welcome(d) : d \in WelcomeData}
InboundCmds == {"", "offer", "answer", "ice", "bye", "closed", "error", "message", "close"}
SteadyFrames ==
  {Binary, Garbage, JsonNull}
    \cup {Response(i, ok, d) : i \in 0..MaxRequests, ok \in {"true", "false"},
                               d \in {Absent, "busy"}}
    \cup {Inbound(c) : c \in InboundCmds}
    \cup {Frame("object", "offer", "true", "peerB", 0, Absent),
          Frame("object", "offer", Absent, Absent, 0, Absent)}
    \cup {Frame("object", Absent, Absent, "peerB", 0, "payload"),
          Frame("object", "ice", Absent, "peerC", 0, "candidate"),
          Frame("object", "offer", "true", "peerB", 1, "offer"),
          Frame("object", "offer", Absent, "peerB", 0, Absent)}

\* isServerResponse, isIncomingRequest
isServerResponse(message) == message.ok \in {"true", "false"}
isIncomingRequest(message) == message.origin # Absent

\* ------------------------------------------------------------------ events
\* detail: "none", the message of an Error, "object" for {origin, ...} or
\* "message" for the whole frame; origin and payload: the origin and the
\* description, candidate or data the detail holds
Ev(name) ==
  [class |-> "Event", name |-> name, detail |-> "none", origin |-> Absent, payload |-> Absent]
CustomEv(name, detail) ==
  [class |-> "CustomEvent", name |-> name, detail |-> detail, origin |-> Absent,
   payload |-> Absent]
ErrorEv(message) == CustomEv("error", message)
DomainEv(name, origin, payload) ==
  [CustomEv(name, "object") EXCEPT !.origin = origin, !.payload = payload]
MessageEv(message) ==
  [CustomEv(message.cmd, "message") EXCEPT !.origin = message.origin,
                                           !.payload = message.data]

\* ------------------------------------------------------- the client record
\* The handlers are written as functions from one snapshot of the mutable
\* state to the next; World is the snapshot a step starts from, with the
\* per-step logs emptied.
\* rs: readyState; ls: the listeners of the client attached to it ("attempt":
\* those of connect(), "steady": those of handleOpen); hadError: the property
\* handleErrorEvent writes on the transport
FreeSocket ==
  [rs |-> "FREE", ls |-> "none", caller |-> "none", url |-> NoUrl, welcomed |-> FALSE,
   hadError |-> FALSE]
\* via: the method the call was made through; outcome, error: how the promise
\* of sendDescription / sendICECandidate settled
NoReq ==
  [status |-> "unissued", given |-> 0, id |-> 0, n |-> 0, resp |-> Absent,
   via |-> "none", outcome |-> "none", error |-> Absent]
NoChain == [attempts |-> 0, fails |-> 0, exceeded |-> 0]
\* sock: the transport the listener of close() is attached to (0: none);
\* ran: that listener has run; resolved: times the promise's resolve was called;
\* rejected: socket.close threw and the promise of close() rejected
NoClose == [sock |-> 0, ran |-> FALSE, resolved |-> 0, rejected |-> FALSE]

World ==
  [connectionState |-> connectionState, socket |-> socket, id |-> id,
   hadError |-> hadError, reconnectAttemptsMade |-> reconnectAttemptsMade,
   reconnectTimeout |-> reconnectTimeout, previousUrl |-> previousUrl,
   pendingRequests |-> pendingRequests,
   pendingResponses |-> pendingResponses, sockets |-> sockets,
   orphanTimers |-> orphanTimers, transforms |-> transforms, reqs |-> reqs,
   sent |-> sent, emitted |-> <<>>, dispatchedOnSocket |-> <<>>,
   setCalls |-> <<>>, chain |-> chain,
   closeCall |-> closeCall,
   result |-> "ok", overflow |-> FALSE]

Emit(w, e) == [w EXCEPT !.emitted = Append(@, e)]

SeqRange(s) == {s[i] : i \in 1..Len(s)}

\* lines 276-280: the part of request() after the wait
RequestProceed(w, r) ==
  LET rid == IF w.reqs[r].given # 0 THEN w.reqs[r].given ELSE r
      w1 == [w EXCEPT !.reqs[r].id = rid, !.reqs[r].status = "pending",
                      !.pendingResponses[rid] = r]
  IN IF w.socket # 0
     THEN [w1 EXCEPT !.sent = Append(@, [req |-> r, id |-> rid, clientId |-> w.id,
                                         welcomed |-> w.sockets[w.socket].welcomed,
                                         rs |-> w.sockets[w.socket].rs,
                                         state |-> w.connectionState])]
     ELSE w1

\* lines 267-281: request() called for the r-th time, with the id `given` in
\* the request (0: none)
request(w, r, given) ==
  LET w1 == [w EXCEPT !.reqs[r].given = given]
  IN IF w.connectionState # "connected"
     THEN [w1 EXCEPT !.pendingRequests = Append(@, r), !.reqs[r].status = "waiting"]
     ELSE RequestProceed(w1, r)

\* the continuations of the request() calls released in this step, in the
\* order their resolvers were called
RECURSIVE DrainBackFrom(_, _)
DrainBackFrom(w, i) ==
  IF i < 1 THEN w
  ELSE LET r == w.pendingRequests[i]
       IN DrainBackFrom(IF w.reqs[r].status = "released" THEN RequestProceed(w, r) ELSE w,
                        i - 1)
\* Drain with the waiters resumed last-in first-out
DrainLifo(w) == DrainBackFrom(w, Len(w.pendingRequests))

RECURSIVE DrainFrom(_, _)
DrainFrom(w, i) ==
  IF i > Len(w.pendingRequests) THEN w
  ELSE LET r == w.pendingRequests[i]
       IN DrainFrom(IF w.reqs[r].status = "released" THEN RequestProceed(w, r) ELSE w,
                    i + 1)
Drain(w) == DrainFrom(w, 1)

\* ReleaseWaiters stopping after the first waiter of the Set
ReleaseFirstOnly(w) ==
  [w EXCEPT !.reqs = [r \in ReqIds |->
     IF w.pendingRequests # <<>> /\ r = w.pendingRequests[1] /\ w.reqs[r].status = "waiting"
     THEN [w.reqs[r] EXCEPT !.status = "released"] ELSE w.reqs[r]]]

\* lines 426-431: every resolver in the Set is called; one already called is a no-op
ReleaseWaiters(w) ==
  [w EXCEPT !.reqs = [r \in ReqIds |->
     IF r \in SeqRange(w.pendingRequests) /\ w.reqs[r].status = "waiting"
     THEN [w.reqs[r] EXCEPT !.status = "released"] ELSE w.reqs[r]]]

\* setConnectionState without the connectionstatechange event of line 424
setConnectionStateQuiet(w, s) ==
  LET w0 == [w EXCEPT !.setCalls = Append(@, <<w.connectionState, s>>)]
  IN IF w.connectionState = s THEN w0
     ELSE LET w1 == Emit([w0 EXCEPT !.connectionState = s], Ev(s))
          IN IF s = "connected" /\ Len(w1.pendingRequests) > 0
             THEN ReleaseWaiters(w1) ELSE w1

\* lines 415-432
setConnectionState(w, s) ==
  LET w0 == [w EXCEPT !.setCalls = Append(@, <<w.connectionState, s>>)]
  IN IF w.connectionState = s THEN w0
     ELSE LET w1 == Emit(Emit([w0 EXCEPT !.connectionState = s], Ev(s)),
                         Ev("connectionstatechange"))
          IN IF s = "connected" /\ Len(w1.pendingRequests) > 0
             THEN ReleaseWaiters(w1) ELSE w1

\* setTimeout(() => this.handleReconnect(), interval) assigned to reconnectTimeout
SetReconnectTimeout(w) ==
  [w EXCEPT !.orphanTimers = IF w.reconnectTimeout = "armed" THEN @ + 1 ELSE @,
            !.reconnectTimeout = "armed"]

\* new WebSocket(url, protocol) throws a SyntaxError
CtorThrows(protocol) == platform.ctor = "whatwg" /\ protocol \in NonTokens
\* the exception socket.close(code, reason) throws, "none" if it throws none:
\* the code is checked first, then the length of the reason
CloseErrors == {"InvalidAccessError", "SyntaxError"}
CloseThrows(code, reason) ==
  IF platform.closeCodes = "whatwg" /\ code # 0 /\ code \notin ValidCloseCodes
  THEN "InvalidAccessError"
  ELSE IF platform.closeReasons = "whatwg" /\ reason > ReasonLimit
  THEN "SyntaxError"
  ELSE "none"

\* socket.close(code, reason): the arguments are checked first, whatever the
\* state of the transport; then a transport that is connecting or open starts
\* closing
CloseTransport(w, s, code, reason) ==
  IF CloseThrows(code, reason) # "none" THEN [w EXCEPT !.result = CloseThrows(code, reason)]
  ELSE IF w.sockets[s].rs \in {"CONNECTING", "OPEN"}
  THEN [w EXCEPT !.sockets[s].rs = "CLOSING"] ELSE w

\* removeListeners of connect()
RemoveListeners(w, s) == [w EXCEPT !.sockets[s].ls = "none"]

\* lines 391-405: the catch block around `await this.connect(url)`
ReconnectCatch(w) ==
  LET w1 == setConnectionState(w, "closed")
      w2 == [w1 EXCEPT !.reconnectAttemptsMade = @ + 1, !.chain.fails = @ + 1]
  IN IF w2.reconnectAttemptsMade > reconnectAttempts
     THEN [Emit(w2, ErrorEv("exceeded maximum reconnect attempts"))
             EXCEPT !.chain.exceeded = @ + 1]
     ELSE SetReconnectTimeout(w2)

\* lines 406-412: urlTransform threw or rejected with e, an Error ("Error") or
\* a value that is not an object ("value": a string, undefined, null), on
\* which the assignment to e.message of line 408 throws a TypeError
TransformCatch(w, e) ==
  IF e = "Error"
  THEN Emit(setConnectionState(w, "closed"), ErrorEv("unable to transform url"))
  ELSE [setConnectionState(w, "closed") EXCEPT !.result = "TypeError"]

\* settle the promise of the connect() call that created transport s
Reject(w, caller) ==
  IF caller = "reconnect" THEN ReconnectCatch([w EXCEPT !.result = "rejected"])
  ELSE [w EXCEPT !.result = "rejected"]

\* lines 123-129, 134-138, 146-150, 154-158: a connection attempt gives up on
\* its transport.  The listeners are removed, then socket.close(code, ...) is
\* called; if it throws, the listener ends there with an uncaught exception:
\* the state is not set to closed and the promise of connect() is not settled
AttemptAbort(w, s, code, reason) ==
  LET w1 == CloseTransport(RemoveListeners(w, s), s, code, reason)
  IN IF w1.result \in CloseErrors THEN w1
     ELSE Reject(setConnectionState(w1, "closed"), w.sockets[s].caller)

\* lines 107-112 and 185-190, after the tests of connect() passed.  The
\* constructor runs in the executor of the promise, after the state was set to
\* connecting: if it throws, the promise of connect() rejects with the
\* SyntaxError, no transport exists and the state stays connecting
ConnectStart(w, caller, url) ==
  LET w1 == [w EXCEPT !.reconnectTimeout = "undefined"]
      w2 == setConnectionState(w1, "connecting")
      free == {s \in SocketIds : w.sockets[s].rs = "FREE"}
  IN IF CtorThrows(PROTOCOL)
     THEN LET w3 == [w2 EXCEPT !.result = "SyntaxError"]
          IN IF caller = "reconnect" THEN ReconnectCatch(w3) ELSE w3
     ELSE IF free = {} THEN [w2 EXCEPT !.overflow = TRUE]
     ELSE LET s == CHOOSE x \in free : \A y \in free : x <= y
          IN [w2 EXCEPT !.sockets[s] = [rs |-> "CONNECTING", ls |-> "attempt",
                                         caller |-> caller, url |-> url,
                                         welcomed |-> FALSE, hadError |-> FALSE],
                        !.result = "started",
                        !.chain.attempts = IF caller = "reconnect" THEN @ + 1 ELSE @]

\* ConnectBody without the test of the connection state
ConnectBodyUnchecked(w, caller, url) ==
  IF w.socket # 0 THEN [w EXCEPT !.result = "socket-exists"]
  ELSE ConnectStart(w, caller, url)

\* ConnectBody that also accepts the state connecting
ConnectBodyAlsoConnecting(w, caller, url) ==
  IF w.connectionState \notin {"new", "closed", "reconnecting", "connecting"}
  THEN [w EXCEPT !.result = "invalid-state"]
  ELSE IF w.socket # 0
  THEN [w EXCEPT !.result = "socket-exists"]
  ELSE ConnectStart(w, caller, url)

\* ConnectBody testing for a transport handle before testing the state
ConnectBodySocketFirst(w, caller, url) ==
  IF w.socket # 0
  THEN [w EXCEPT !.result = "socket-exists"]
  ELSE IF w.connectionState \notin {"new", "closed", "reconnecting"}
  THEN [w EXCEPT !.result = "invalid-state"]
  ELSE ConnectStart(w, caller, url)

\* lines 100-112 and 185-190
ConnectBody(w, caller, url) ==
  IF w.connectionState \notin {"new", "closed", "reconnecting"}
  THEN [w EXCEPT !.result = "invalid-state"]
  ELSE IF w.socket # 0
  THEN [w EXCEPT !.result = "socket-exists"]
  ELSE ConnectStart(w, caller, url)

connect(w, caller, url) ==
  LET w1 == ConnectBody(w, caller, url)
  IN IF w1.result \in {"invalid-state", "socket-exists"} /\ caller = "reconnect"
     THEN ReconnectCatch(w1) ELSE w1

\* lines 199-202: the listener is added, then socket.close(code, reason) is
\* called in the executor of the promise; if it throws, the promise rejects
CloseHeld(w, code, reason) ==
  LET w1 == CloseTransport(w, w.socket, code, reason)
      refused == w1.result \in CloseErrors
  IN [w1 EXCEPT !.closeCall = [sock |-> w.socket, ran |-> FALSE, resolved |-> 0,
                               rejected |-> refused],
                !.result = IF refused THEN w1.result ELSE "waiting"]

\* close() that sets the state to closed when no transport is held
closeClosing(w, code, reason) ==
  IF w.socket = 0 THEN [setConnectionState(w, "closed") EXCEPT !.result = "returned"]
  ELSE CloseHeld(w, code, reason)

\* lines 194-203
close(w, code, reason) ==
  IF w.socket = 0 THEN [w EXCEPT !.result = "returned"]
  ELSE CloseHeld(w, code, reason)

\* lines 283-295
handleOpen(w, s, wid) ==
  setConnectionState([w EXCEPT !.socket = s, !.id = wid, !.sockets[s].ls = "steady"],
                     "connected")

\* lines 122-131: the open listener of connect()
AttemptOpen(w, s, protocol) ==
  IF protocol # PROTOCOL THEN AttemptAbort(w, s, 1002, InvalidProtocolReason) ELSE w

\* line 154: the test that lets a parsed first frame through
IsWelcome(message) == message.cmd = "welcome"

\* AttemptMessage without the assignment of line 164
AttemptMessageKeepUrl(w, s, f) ==
  IF f.kind = "binary" THEN AttemptAbort(w, s, 1003, ExpectedStringReason)
  ELSE IF f.kind = "garbage" THEN AttemptAbort(w, s, 1003, UnableToParseReason)
  ELSE IF f.kind = "null" THEN [w EXCEPT !.result = "TypeError"]
  ELSE IF ~IsWelcome(f) THEN AttemptAbort(w, s, 1003, ExpectedWelcomeReason)
  ELSE IF f.data = Absent THEN [RemoveListeners(w, s) EXCEPT !.result = "TypeError"]
  ELSE LET w1 == [RemoveListeners(w, s) EXCEPT !.reconnectAttemptsMade = 0,
                                               !.hadError = FALSE]
           w2 == handleOpen(w1, s, IF f.data = "noid" THEN "undefined" ELSE f.data)
       IN [w2 EXCEPT !.result = "resolved"]

\* lines 133-169: the message listener of connect()
AttemptMessage(w, s, f) ==
  IF f.kind = "binary" THEN AttemptAbort(w, s, 1003, ExpectedStringReason)
  ELSE IF f.kind = "garbage" THEN AttemptAbort(w, s, 1003, UnableToParseReason)
  ELSE IF f.kind = "null" THEN [w EXCEPT !.result = "TypeError"]
  ELSE IF ~IsWelcome(f) THEN AttemptAbort(w, s, 1003, ExpectedWelcomeReason)
  ELSE IF f.data = Absent THEN [RemoveListeners(w, s) EXCEPT !.result = "TypeError"]
  ELSE LET w1 == [RemoveListeners(w, s) EXCEPT !.previousUrl = w.sockets[s].url,
                                               !.reconnectAttemptsMade = 0,
                                               !.hadError = FALSE]
           w2 == handleOpen(w1, s, IF f.data = "noid" THEN "undefined" ELSE f.data)
       IN [w2 EXCEPT !.result = "resolved"]

\* lines 171-175
AttemptError(w, s) ==
  Reject(setConnectionState(RemoveListeners(w, s), "closed"), w.sockets[s].caller)

\* lines 177-183
AttemptClose(w, s) ==
  Reject(setConnectionState(RemoveListeners(w, s), "closed"), w.sockets[s].caller)

\* line 200: the once-listener of close(), `() => resolve`, returns the
\* resolve function without calling it
CloseListener(w, s) ==
  IF w.closeCall.sock = s THEN [w EXCEPT !.closeCall.sock = 0, !.closeCall.ran = TRUE]
  ELSE w

\* lines 297-299, run as the error listener of transport s: `this` is the
\* transport, so the flag is written on the transport and the client's
\* hadError stays as it was
handleErrorEvent(w, s) == [w EXCEPT !.sockets[s].hadError = TRUE]

\* handleCloseEvent with the client as its receiver: lines 369-379
handleCloseEventBound(w, s) ==
  IF w.socket = 0 THEN w
  ELSE LET w1 == [w EXCEPT !.sockets[w.socket].ls = "none", !.socket = 0]
       IN IF reconnectOnClose \/ (w.hadError /\ reconnectOnError)
          THEN [SetReconnectTimeout(w1) EXCEPT
                  !.chain = NoChain]
          ELSE w1

\* lines 364-380, run as the close listener of transport s: `this` is the
\* transport, this.socket is undefined, and the handler returns on lines
\* 365-367; lines 369-379 (detach, release the handle, schedule the
\* reconnection) are never reached
handleCloseEvent(w, s) == w

\* this.dispatchEvent(e) in a listener of transport s: the event is dispatched
\* on the transport, whose listeners for that event name run in turn.  The
\* listeners attached are those of lines 290-292 (ls = "steady") and the
\* once-listener of close(); a message listener called with an event that has
\* no `data` takes the branch of lines 302-306
RECURSIVE DispatchOnSocket(_, _, _)
DispatchOnSocket(w, s, e) ==
  LET w1 == [w EXCEPT !.dispatchedOnSocket = Append(@, [k |-> s, ev |-> e])]
  IN IF e.name = "error" /\ w.sockets[s].ls = "steady" THEN handleErrorEvent(w1, s)
     ELSE IF e.name = "message" /\ w.sockets[s].ls = "steady"
     THEN DispatchOnSocket(w1, s, ErrorEv("expected a string"))
     ELSE IF e.name = "close"
     THEN CloseListener(IF w.sockets[s].ls = "steady" THEN handleCloseEvent(w1, s) ELSE w1, s)
     ELSE w1

\* lines 303-306, 314-317, 333-336: a failure found in a frame of an established
\* connection is dispatched as an error event on `this`, the transport
SteadyFailure(w, s, message) == DispatchOnSocket(w, s, ErrorEv(message))

\* handleMessageEvent with the client as its receiver
handleMessageEventBound(w, s, f) ==
  IF f.kind = "binary" THEN Emit(w, ErrorEv("expected a string"))
  ELSE IF f.kind = "garbage" THEN Emit(w, ErrorEv("unable to parse message"))
  ELSE IF f.kind = "null" THEN [w EXCEPT !.result = "TypeError"]
  ELSE IF isServerResponse(f)
  THEN IF f.id # 0 /\ w.pendingResponses[f.id] # 0
       THEN LET r == w.pendingResponses[f.id]
            IN [w EXCEPT !.pendingResponses[f.id] = 0,
                         !.reqs[r].status = "resolved",
                         !.reqs[r].n = @ + 1,
                         !.reqs[r].resp = <<f.ok, f.data>>]
       ELSE w
  ELSE IF isIncomingRequest(f)
  THEN IF f.cmd \in {"", Absent} THEN Emit(w, ErrorEv("expected cmd to be specified"))
       ELSE IF f.cmd \in {"offer", "answer", "ice"} /\ f.data = Absent
       THEN [w EXCEPT !.result = "TypeError"]
       ELSE IF f.cmd \in {"offer", "answer"}
       THEN Emit(w, DomainEv("description", f.origin, Member(f.data, f.cmd)))
       ELSE IF f.cmd = "ice"
       THEN Emit(w, DomainEv("icecandidate", f.origin, Member(f.data, "candidate")))
       ELSE Emit(w, MessageEv(f))
  ELSE w

\* lines 301-362, run as the message listener of transport s: `this` is the
\* transport.  JSON null makes isServerResponse throw (line 47); a response
\* reaches line 321, where this.pendingResponses is undefined and `.get`
\* throws a TypeError before any entry is looked up; every dispatchEvent
\* dispatches on the transport
handleMessageEvent(w, s, f) ==
  IF f.kind = "binary" THEN SteadyFailure(w, s, "expected a string")
  ELSE IF f.kind = "garbage" THEN SteadyFailure(w, s, "unable to parse message")
  ELSE IF f.kind = "null" THEN [w EXCEPT !.result = "TypeError"]
  ELSE IF isServerResponse(f) THEN [w EXCEPT !.result = "TypeError"]
  ELSE IF isIncomingRequest(f)
  THEN IF f.cmd \in {"", Absent} THEN SteadyFailure(w, s, "expected cmd to be specified")
       ELSE IF f.cmd \in {"offer", "answer", "ice"} /\ f.data = Absent
       THEN [w EXCEPT !.result = "TypeError"]
       ELSE IF f.cmd = "offer"
       THEN DispatchOnSocket(w, s, DomainEv("description", f.origin, Member(f.data, "offer")))
       ELSE IF f.cmd = "answer"
       THEN DispatchOnSocket(w, s, DomainEv("description", f.origin, Member(f.data, "answer")))
       ELSE IF f.cmd = "ice"
       THEN DispatchOnSocket(w, s,
                             DomainEv("icecandidate", f.origin, Member(f.data, "candidate")))
       ELSE DispatchOnSocket(w, s, MessageEv(f))
  ELSE w

\* lines 382-390, after the transform has produced the address
ReconnectConnect(w, url) == connect(w, "reconnect", url)

\* a transport no listener of the client is attached to any more, and that the
\* client does not hold, is out of the client's reach
Collect(w) ==
  [w EXCEPT !.sockets = [s \in SocketIds |->
     IF /\ s # w.socket
        /\ s # w.closeCall.sock
        /\ (w.sockets[s].ls = "none" \/ w.sockets[s].rs = "CLOSED")
     THEN FreeSocket ELSE w.sockets[s]]]

\* lines 241-243 and 258-260: what sendDescription and sendICECandidate do with
\* the response request() resolved with: <<outcome, error message>>
SendOutcome(ok, data) ==
  IF ok = "false" /\ data # Absent THEN <<"rejected", data>> ELSE <<"resolved", Absent>>

\* the continuations of the sendDescription / sendICECandidate calls whose
\* request() resolved in this step
Settle(w) ==
  [w EXCEPT !.reqs = [r \in ReqIds |->
     IF w.reqs[r].status = "resolved" /\ w.reqs[r].outcome = "pending"
     THEN LET o == SendOutcome(w.reqs[r].resp[1], w.reqs[r].resp[2])
          IN [w.reqs[r] EXCEPT !.outcome = o[1], !.error = o[2]]
     ELSE w.reqs[r]]]

Finish(w) == Collect(Settle(Drain(w)))

Chains(w) ==
  w.orphanTimers + w.transforms + (IF w.reconnectTimeout = "armed" THEN 1 ELSE 0)

\* the step from the current state to snapshot w, reported as operation o
Commit(w0, o) ==
  LET w == Finish(w0)
  IN /\ ~w.overflow
     /\ Chains(w) <= MaxChains
     /\ connectionState' = w.connectionState
     /\ socket' = w.socket
     /\ id' = w.id
     /\ hadError' = w.hadError
     /\ reconnectAttemptsMade' = w.reconnectAttemptsMade
     /\ reconnectTimeout' = w.reconnectTimeout
     /\ previousUrl' = w.previousUrl
     /\ pendingRequests' = w.pendingRequests
     /\ pendingResponses' = w.pendingResponses
     /\ sockets' = w.sockets
     /\ orphanTimers' = w.orphanTimers
     /\ transforms' = w.transforms
     /\ reqs' = w.reqs
     /\ sent' = w.sent
     /\ emitted' = w.emitted
     /\ dispatchedOnSocket' = w.dispatchedOnSocket
     /\ setCalls' = w.setCalls
     /\ chain' = w.chain
     /\ closeCall' = w.closeCall
     /\ op' = [o EXCEPT !.result = w.result]
     /\ UNCHANGED config

Op(name) == [name |-> name, result |-> "ok"]

\* -------------------------------------------------------------------- Init
\* the state after `new Connect(init)`, for the configurations in Configs
InitIn(Configs) ==
  /\ platform \in Platforms
  /\ \E c \in Configs :
       /\ reconnectOnClose = c[1]
       /\ reconnectOnError = c[2]
       /\ reconnectAttempts = c[3]
  /\ connectionState = "new"
  /\ socket = 0
  /\ id = "undefined"
  /\ hadError = FALSE
  /\ reconnectAttemptsMade = 0
  /\ reconnectTimeout = "undefined"
  /\ previousUrl = NoUrl
  /\ pendingRequests = <<>>
  /\ pendingResponses = [i \in ReqIds |-> 0]
  /\ sockets = [s \in SocketIds |-> FreeSocket]
  /\ orphanTimers = 0
  /\ transforms = 0
  /\ reqs = [r \in ReqIds |-> NoReq]
  /\ sent = <<>>
  /\ emitted = <<>>
  /\ dispatchedOnSocket = <<>>
  /\ setCalls = <<>>
  /\ op = Op("init")
  /\ chain = NoChain
  /\ closeCall = NoClose

AllConfigs == BOOLEAN \X BOOLEAN \X (0..MaxAttempts)
Init == InitIn(AllConfigs)

\* ----------------------------------------------------------------- actions
\* connect(url) called by the user
ConnectTo(url) == Commit(connect(World, "user", url), Op("connect"))
ConnectIn(Urls) == \E url \in Urls : ConnectTo(url)
Connect == ConnectIn(AllUrls)

\* close(code, reason) called by the user
CloseWith(code, reason) == Commit(close(World, code, reason), Op("close"))
Close == \E code \in UserCloseCodes, reason \in UserCloseReasons : CloseWith(code, reason)

\* request(request) called by the user (lines 267-281); `given` is the id the
\* caller put in the request, 0 for none
RequestCall(r, given) ==
  /\ reqs[r].status = "unissued"
  /\ \A q \in ReqIds : q < r => reqs[q].status # "unissued"
  /\ given # 0 => \E q \in ReqIds : reqs[q].id = given
  /\ Commit(request([World EXCEPT !.reqs[r].via = "request"], r, given), Op("request"))

RequestIn(Given) == \E r \in ReqIds, given \in Given : RequestCall(r, given)
Request == RequestIn(0..MaxRequests)

\* the description kinds sendDescription is called with
DescriptionTypes == {"offer", "answer", "rollback"}

\* sendDescription testing the description kind only after request() was called
sendDescriptionLate(w, r, type) ==
  LET w1 == request([w EXCEPT !.reqs[r].via = "sendDescription",
                              !.reqs[r].outcome = "pending"], r, 0)
  IN IF type \notin {"offer", "answer"} THEN [w1 EXCEPT !.result = "unsupported-type"]
     ELSE w1

\* lines 228-240: sendDescription up to the await of request()
sendDescription(w, r, type) ==
  IF type \notin {"offer", "answer"} THEN [w EXCEPT !.result = "unsupported-type"]
  ELSE request([w EXCEPT !.reqs[r].via = "sendDescription",
                         !.reqs[r].outcome = "pending"], r, 0)

\* lines 251-257: sendICECandidate up to the await of request()
sendICECandidate(w, r) ==
  request([w EXCEPT !.reqs[r].via = "sendICECandidate",
                    !.reqs[r].outcome = "pending"], r, 0)

\* sendDescription(target, description) called by the user
SendDescriptionCall(r, type) ==
  /\ reqs[r].status = "unissued"
  /\ \A q \in ReqIds : q < r => reqs[q].status # "unissued"
  /\ Commit(sendDescription(World, r, type), Op("sendDescription"))

SendDescription == \E r \in ReqIds, type \in DescriptionTypes : SendDescriptionCall(r, type)

\* sendICECandidate(target, candidate) called by the user
SendICECandidateCall(r) ==
  /\ reqs[r].status = "unissued"
  /\ \A q \in ReqIds : q < r => reqs[q].status # "unissued"
  /\ Commit(sendICECandidate(World, r), Op("sendICECandidate"))

SendICECandidate == \E r \in ReqIds : SendICECandidateCall(r)

\* the transport reports that it is open, with the sub-protocol it negotiated
OpenEvent(s, protocol) ==
  /\ sockets[s].rs = "CONNECTING"
  /\ LET w == [World EXCEPT !.sockets[s].rs = "OPEN"]
     IN Commit(IF sockets[s].ls = "attempt" THEN AttemptOpen(w, s, protocol) ELSE w,
               Op(IF protocol = PROTOCOL THEN "open" ELSE "open-mismatch"))

SocketOpen == \E s \in SocketIds, protocol \in {PROTOCOL, NoProtocol} : OpenEvent(s, protocol)

\* the transport delivers the first frame of a connection attempt
HandshakeEvent(s, f) ==
  /\ sockets[s].rs = "OPEN"
  /\ sockets[s].ls = "attempt"
  /\ Commit(AttemptMessage([World EXCEPT !.sockets[s].welcomed =
                              (f.kind = "object" /\ f.cmd = "welcome")], s, f),
            Op("handshake"))

\* the transport delivers a frame on an established connection
MessageEvent(s, f) ==
  /\ sockets[s].rs = "OPEN"
  /\ sockets[s].ls = "steady"
  /\ Commit(handleMessageEvent(World, s, f), Op("message"))

SocketHandshakeIn(Frames) == \E s \in SocketIds, f \in Frames : HandshakeEvent(s, f)
SocketMessageIn(Frames) == \E s \in SocketIds, f \in Frames : MessageEvent(s, f)
SocketHandshake == SocketHandshakeIn(HandshakeFrames)
SocketMessage == SocketMessageIn(SteadyFrames)

\* the transport reports an error
ErrorEvent(s) ==
  /\ sockets[s].rs \in {"CONNECTING", "OPEN", "CLOSING"}
  /\ sockets[s].ls # "none"
  /\ Commit(IF sockets[s].ls = "attempt" THEN AttemptError(World, s)
            ELSE handleErrorEvent(World, s),
            Op("error"))

SocketError == \E s \in SocketIds : ErrorEvent(s)

\* the transport reports that it has closed; its listeners run in the order
\* they were added
CloseEvent(s) ==
  /\ sockets[s].rs \in {"CONNECTING", "OPEN", "CLOSING"}
  /\ LET w == [World EXCEPT !.sockets[s].rs = "CLOSED"]
     IN Commit(CloseListener(IF sockets[s].ls = "attempt" THEN AttemptClose(w, s)
                             ELSE IF sockets[s].ls = "steady" THEN handleCloseEvent(w, s)
                             ELSE w, s),
               Op("closeEvent"))

SocketClose == \E s \in SocketIds : CloseEvent(s)

\* a reconnect timer expires: handleReconnect up to the result of urlTransform
\* (lines 382-387); the transform returns an address ("sync"), throws an Error
\* ("throw") or another value ("throwValue"), or returns a promise ("async");
\* url is the address a transform that returns one returns
TimerExpires(which, outcome, url) ==
  /\ which = "current" => reconnectTimeout = "armed"
  /\ which = "orphan" => orphanTimers > 0
  /\ LET w0 == IF which = "current" THEN [World EXCEPT !.reconnectTimeout = "expired"]
               ELSE [World EXCEPT !.orphanTimers = @ - 1]
         w1 == setConnectionState(w0, "reconnecting")
     IN Commit(IF outcome = "sync" THEN ReconnectConnect(w1, url)
               ELSE IF outcome = "throw" THEN TransformCatch(w1, "Error")
               ELSE IF outcome = "throwValue" THEN TransformCatch(w1, "value")
               ELSE [w1 EXCEPT !.transforms = @ + 1],
               Op("timer"))

TimerFireIn(Outcomes, Urls) ==
  \E which \in {"current", "orphan"}, outcome \in Outcomes, url \in Urls :
    TimerExpires(which, outcome, url)
TimerFire == TimerFireIn({"sync", "throw", "throwValue", "async"}, AllUrls)

\* the promise returned by urlTransform settles (line 387): it resolves with
\* the address url, or rejects with an Error ("reject") or with another value
\* ("rejectValue")
TransformSettles(outcome, url) ==
  /\ transforms > 0
  /\ LET w == [World EXCEPT !.transforms = @ - 1]
     IN Commit(IF outcome = "resolve" THEN ReconnectConnect(w, url)
               ELSE IF outcome = "reject" THEN TransformCatch(w, "Error")
               ELSE TransformCatch(w, "value"),
               Op("transform"))

TransformSettleIn(Urls) ==
  \E outcome \in {"resolve", "reject", "rejectValue"}, url \in Urls :
    TransformSettles(outcome, url)
TransformSettle == TransformSettleIn(AllUrls)

Next ==
  \/ Connect
  \/ Close
  \/ Request
  \/ SendDescription
  \/ SendICECandidate
  \/ SocketOpen
  \/ SocketHandshake
  \/ SocketMessage
  \/ SocketError
  \/ SocketClose
  \/ TimerFire
  \/ TransformSettle

Spec == Init /\ [][Next]_vars

\* ---------------------------------------------------------- specifications
\* Spec: every operation with every input.  No reachable state has a reconnect
\* timer pending (handleCloseEvent never reaches line 376), so TimerFire and
\* TransformSettle are never enabled; the specifications below run the
\* operations that can happen, on parts of the input space.

\* SpecLife: the connection life cycle at every address, with every handshake
\* frame, transport errors and closures, close() calls and every configuration.
LifeFrames == {Binary, Inbound("offer"), Inbound("closed")}
NextLife ==
  \/ Connect
  \/ Close
  \/ SocketOpen
  \/ SocketHandshake
  \/ SocketMessageIn(LifeFrames)
  \/ SocketError
  \/ SocketClose
SpecLife == Init /\ [][NextLife]_vars

\* SpecReq: the request/response correlator around connections that are
\* established and lost.
ReqConfigs == {<<TRUE, FALSE, 1>>, <<FALSE, FALSE, 0>>}
ReqHandshake == {Welcome("abc"), NotWelcome}
ReqFrames == {Response(i, "true", Absent) : i \in 0..MaxRequests} \cup {Inbound("offer")}
NextReq ==
  \/ ConnectIn(OneUrl)
  \/ Close
  \/ Request
  \/ SocketOpen
  \/ SocketHandshakeIn(ReqHandshake)
  \/ SocketMessageIn(ReqFrames)
  \/ SocketClose
SpecReq == InitIn(ReqConfigs) /\ [][NextReq]_vars

\* SpecGate: requests made around connection attempts whose first frame is any
\* of the handshake frames, without reconnection.
GateConfigs == {<<FALSE, FALSE, 0>>}
NextGate ==
  \/ ConnectIn(OneUrl)
  \/ Request
  \/ SocketOpen
  \/ SocketHandshake
  \/ SocketClose
SpecGate == InitIn(GateConfigs) /\ [][NextGate]_vars

\* SpecSend: sendDescription and sendICECandidate calls made before, during and
\* after connections, answered by responses with either ok flag, with and
\* without a message.
OkHandshake == {Welcome("abc")}
SendFrames ==
  {Response(i, ok, d) : i \in 1..MaxRequests, ok \in {"true", "false"}, d \in {Absent, "busy"}}
NextSend ==
  \/ ConnectIn(OneUrl)
  \/ SendDescription
  \/ SendICECandidate
  \/ SocketOpen
  \/ SocketHandshakeIn(OkHandshake)
  \/ SocketMessageIn(SendFrames)
  \/ SocketClose
SpecSend == InitIn(GateConfigs) /\ [][NextSend]_vars

\* SpecFrames: every steady-state frame delivered on established connections
\* with requests pending whose ids were generated.
NextFrames ==
  \/ RequestIn({0})
  \/ ConnectIn(OneUrl)
  \/ SocketOpen
  \/ SocketHandshakeIn(OkHandshake)
  \/ SocketMessage
  \/ SocketError
  \/ SocketClose
SpecFrames == InitIn(GateConfigs) /\ [][NextFrames]_vars

\* ------------------------------------------------------------------ claims
Emitted(e) == \E i \in 1..Len(emitted) : emitted[i] = e
TimersIdle == reconnectTimeout # "armed" /\ orphanTimers = 0 /\ transforms = 0
Transitions == {setCalls[i] : i \in {j \in 1..Len(setCalls) : setCalls[j][1] # setCalls[j][2]}}

\* the transports on which a frame can reach handleMessageEvent
Established == {s \in SocketIds : sockets[s].rs = "OPEN" /\ sockets[s].ls = "steady"}

\* the transport of the established connection closes and close() was not
\* called on it
UnexpectedClosure(s) ==
  /\ socket = s
  /\ sockets[s].ls = "steady"
  /\ closeCall.sock # s
  /\ CloseEvent(s)

\* The reconnection controller never starts.  The only place that schedules
\* the first reconnect timer is line 376, which handleCloseEvent never reaches,
\* so in every reachable state no timer is pending, no handleReconnect call is
\* suspended, the state is neither reconnecting nor closing, the client's
\* had-error flag and reconnect counter have their initial values, and once a
\* transport is held it is held for ever.
ReconnectionNeverStarts ==
  /\ TimersIdle
  /\ chain = NoChain
  /\ connectionState \in {"new", "connecting", "connected", "closed"}
  /\ hadError = FALSE
  /\ reconnectAttemptsMade = 0
  /\ socket # 0 <=> connectionState = "connected"

\* C3: every frame handed to a transport was sent after a valid welcome frame
\* (command welcome, carrying a non-empty identity) had been received on that
\* transport.
C3_HandshakeGating ==
  \A i \in 1..Len(sent) : sent[i].welcomed /\ sent[i].clientId \notin {"undefined", ""}

\* C4: a request() made while the state is not connected stays a waiter, with
\* no id, not registered and not transmitted, exactly as long as the state has
\* not reached connected; when the state reaches connected every buffered
\* request has its id, has been registered and has been transmitted.
WasSent(r) == \E i \in 1..Len(sent) : sent[i].req = r
C4_BufferedUntilConnected ==
  \A r \in ReqIds :
    /\ reqs[r].status = "waiting" =>
         /\ connectionState # "connected"
         /\ reqs[r].id = 0
         /\ ~WasSent(r)
         /\ \A i \in ReqIds : pendingResponses[i] # r
    /\ reqs[r].status # "released"
    /\ (r \in SeqRange(pendingRequests) /\ Emitted(Ev("connected"))) =>
         /\ reqs[r].id # 0
         /\ WasSent(r)
         /\ reqs[r].status \in {"pending", "resolved"}

C4_Witness ==
  /\ Emitted(Ev("connected"))
  /\ \E r \in ReqIds : r \in SeqRange(pendingRequests) /\ WasSent(r)
                       /\ pendingResponses[reqs[r].id] = r

\* C5: buffered requests are transmitted in the order request() was called.
C5_BufferedFifo ==
  \A i, j \in 1..Len(sent) :
    (/\ i < j
     /\ sent[i].req \in SeqRange(pendingRequests)
     /\ sent[j].req \in SeqRange(pendingRequests)) => sent[i].req < sent[j].req

C5_Witness ==
  /\ Len(pendingRequests) >= 2
  /\ \E i, j \in 1..Len(sent) :
       /\ i < j
       /\ sent[i].req = pendingRequests[1]
       /\ sent[j].req = pendingRequests[2]

\* C6: a response frame received on an established connection whose id has an
\* entry in pendingResponses removes that entry and calls its resolver once
\* with the response, and no resolver is ever called twice; a response frame
\* whose id has no entry changes nothing and emits no event.
ResponseFrames == {f \in SteadyFrames : f.kind = "object" /\ isServerResponse(f)}
C6_ResponseStep(f) ==
  IF f.id # 0 /\ pendingResponses[f.id] # 0
  THEN LET r == pendingResponses[f.id]
       IN /\ pendingResponses' = [pendingResponses EXCEPT ![f.id] = 0]
          /\ reqs' = [reqs EXCEPT ![r].status = "resolved", ![r].n = 1,
                                  ![r].resp = <<f.ok, f.data>>]
          /\ reqs[r].n = 0
  ELSE /\ UNCHANGED <<pendingResponses, pendingRequests, connectionState, reqs,
                      socket, sockets, sent>>
       /\ emitted' = <<>>
C6_CorrelationSound ==
  [][op'.name = "message" =>
       \A s \in Established, f \in ResponseFrames : MessageEvent(s, f) => C6_ResponseStep(f)]_vars

\* C7: every change of connectionState is a transition of the documented table.
DocumentedTransitions ==
  {<<"new", "connecting">>, <<"connecting", "connected">>, <<"connecting", "closed">>,
   <<"connected", "closing">>, <<"connected", "closed">>, <<"closing", "closed">>,
   <<"closed", "connecting">>, <<"closed", "reconnecting">>,
   <<"reconnecting", "connected">>, <<"reconnecting", "closed">>}
C7_DocumentedTransitionsOnly == Transitions \subseteq DocumentedTransitions

C7_Witness ==
  /\ op.name = "connect" /\ op.result = "started"
  /\ Transitions = {<<"closed", "connecting">>}

\* C8: the notifications named after a connection state or named
\* connectionstatechange that a step emits are exactly, in order, one named
\* after the new state and one connectionstatechange for every call of
\* setConnectionState that changed the state; in every state the client
\* reaches, a call of setConnectionState for another state emits exactly the
\* notification named after that state and then connectionstatechange, and a
\* call for the state already held emits nothing and changes nothing.
RECURSIVE StateNotifications(_, _)
StateNotifications(calls, held) ==
  IF calls = <<>> THEN <<>>
  ELSE LET c == Head(calls)
       IN (IF c[2] = held THEN <<>> ELSE <<c[2], "connectionstatechange">>)
            \o StateNotifications(Tail(calls), c[2])
IsStateNotification(e) == e.name \in ConnectionStates \cup {"connectionstatechange"}
NotificationNames ==
  LET n == SelectSeq(emitted, IsStateNotification)
  IN [i \in 1..Len(n) |-> n[i].name]
\* setConnectionState(target) called in the current state: what it emits and
\* what it changes
C8_Call(target) ==
  LET w == setConnectionState(World, target)
  IN IF target = connectionState
     THEN w = [World EXCEPT !.setCalls = <<<<target, target>>>>]
     ELSE /\ w.emitted = <<Ev(target), Ev("connectionstatechange")>>
          /\ w.connectionState = target
C8_NotifyOnChange ==
  /\ setCalls # <<>> =>
       /\ NotificationNames = StateNotifications(setCalls, setCalls[1][1])
       /\ connectionState = setCalls[Len(setCalls)][2]
       /\ \A i \in 1..(Len(setCalls) - 1) : setCalls[i + 1][1] = setCalls[i][2]
  /\ setCalls = <<>> => NotificationNames = <<>>
  /\ \A target \in ConnectionStates : C8_Call(target)

C8_Witness ==
  /\ op.name = "handshake" /\ op.result = "rejected"
  /\ setCalls = <<<<"connecting", "closed">>>>
  /\ emitted = <<Ev("closed"), Ev("connectionstatechange")>>

\* C9: a connect() call made by the user while the state is neither new nor
\* closed is rejected with the invalid-state error, emits nothing and leaves
\* the connection state, the reconnect timers, the transport held and every
\* transport as they were; a call made in state new or closed does not fail
\* with the invalid-state error.
C9_UserConnectOnlyNewOrClosed ==
  [][\A url \in AllUrls :
       ConnectTo(url) =>
         IF connectionState \in {"new", "closed"}
         THEN op'.result # "invalid-state"
         ELSE /\ op'.result = "invalid-state"
              /\ emitted' = <<>>
              /\ UNCHANGED <<connectionState, reconnectTimeout, orphanTimers, transforms,
                             socket, sockets>>]_vars

C9_Witness ==
  /\ op.name = "connect" /\ op.result = "invalid-state"
  /\ connectionState = "connecting"
  /\ \E s \in SocketIds : sockets[s].ls = "attempt" /\ sockets[s].rs = "OPEN"

\* C10, as the specification states it: the client never has more than one transport, counting
\* those under construction and the established one, and a connect() call made
\* while the client holds a transport fails with the already-connected error
\* ('socket exists') and creates no transport.
Transports == {s \in SocketIds : sockets[s].ls \in {"attempt", "steady"} \/ s = socket}
C10_AlreadyConnectedError ==
  /\ [](Cardinality(Transports) <= 1)
  /\ [][\A url \in AllUrls :
          (ConnectTo(url) /\ socket # 0) =>
            op'.result = "socket-exists" /\ UNCHANGED <<socket, sockets>>]_vars

\* C10, as the code has it: the client never has more than one transport, counting those
\* under construction and the established one, and a connect() call made
\* while the client holds a transport fails with the invalid-state error (line
\* 101 tests the state before line 103 tests the handle) and creates no
\* transport.
C10_AtMostOneTransport ==
  /\ [](Cardinality(Transports) <= 1)
  /\ [][\A url \in AllUrls :
          (ConnectTo(url) /\ socket # 0) =>
            op'.result = "invalid-state" /\ UNCHANGED <<socket, sockets>>]_vars

C10_Witness ==
  /\ op.name = "connect" /\ op.result = "invalid-state"
  /\ socket # 0 /\ sockets[socket].rs = "CLOSED"
  /\ Cardinality(Transports) = 1

\* C11: the step in which the transport of the established connection closes
\* unexpectedly releases the transport handle and sets the state to closed, and
\* the client is never in state connected without holding a transport.
C11_ConnectedHoldsTransport ==
  /\ [][\A s \in SocketIds :
          UnexpectedClosure(s) => socket' = 0 /\ connectionState' = "closed"]_vars
  /\ [](connectionState = "connected" => socket # 0)

\* C12: a close() call that found a transport leaves the state closing, and
\* the step in which that transport reports closure leaves the state closed.
C12_CloseGoesThroughClosing ==
  /\ (op.name = "close" /\ op.result = "waiting") => connectionState = "closing"
  /\ (op.name = "closeEvent" /\ closeCall.ran) => connectionState = "closed"

\* C13: once the transport on which close() was called has reported closure,
\* the awaitable of that close() call has been resolved exactly once.
C13_CloseResolves == closeCall.ran => closeCall.resolved = 1

\* C14: close() called while the client holds no transport returns at once,
\* emits nothing, and leaves the state, the PendingRequest map, the waiter
\* collection, the reconnect counter, the had-error flag, the reconnect timers
\* and every transport and request as they were.
C14_CloseWithoutTransport ==
  [][(Close /\ socket = 0) =>
       /\ op'.result = "returned"
       /\ emitted' = <<>>
       /\ UNCHANGED <<connectionState, socket, id, pendingResponses, pendingRequests,
                      reconnectAttemptsMade, hadError, reconnectTimeout, orphanTimers,
                      transforms, sockets, reqs, sent, closeCall>>]_vars

C14_Witness ==
  /\ op.name = "close" /\ op.result = "returned"
  /\ connectionState = "connecting"
  /\ pendingRequests # <<>>
  /\ \E s \in SocketIds : sockets[s].ls = "attempt"

\* C15: the closure of a transport on which close() was called schedules no
\* reconnect timer and does not lead to the state reconnecting, in every
\* configuration.
C15_ExplicitCloseNoReconnect ==
  [][\A s \in SocketIds :
       (CloseEvent(s) /\ closeCall.sock = s) =>
         /\ TimersIdle'
         /\ UNCHANGED <<reconnectTimeout, orphanTimers>>
         /\ connectionState' # "reconnecting"]_vars

C15_Witness ==
  /\ op.name = "closeEvent"
  /\ closeCall.ran
  /\ ~closeCall.rejected
  /\ reconnectOnClose
  /\ socket # 0 /\ sockets[socket].rs = "CLOSED"

\* C16: when the transport of the established connection closes without a
\* close() call, a reconnect timer is armed if reconnectOnClose is set or the
\* had-error flag and reconnectOnError are both set; otherwise no timer is
\* pending afterwards and no reconnection is in progress.
C16_ReconnectPolicy ==
  [][\A s \in SocketIds :
       UnexpectedClosure(s) =>
         IF reconnectOnClose \/ (hadError /\ reconnectOnError)
         THEN reconnectTimeout' = "armed" /\ reconnectTimeout # "armed"
         ELSE TimersIdle' /\ UNCHANGED <<reconnectTimeout, connectionState>>]_vars

\* C19: the step in which a connection attempt receives its welcome frame and
\* resolves leaves the state connected, the client holding that transport,
\* the id equal to the id the frame carries, the previous address equal to the
\* address that attempt dialed, the had-error flag false and the reconnect
\* counter 0.
C19_SessionStart ==
  [][\A s \in SocketIds, f \in HandshakeFrames :
       (HandshakeEvent(s, f) /\ op'.result = "resolved") =>
         /\ connectionState' = "connected"
         /\ socket' = s
         /\ id' = (IF f.data = "noid" THEN "undefined" ELSE f.data)
         /\ previousUrl' = sockets[s].url
         /\ hadError' = FALSE
         /\ reconnectAttemptsMade' = 0]_vars

C19_Witness ==
  /\ op.name = "handshake" /\ op.result = "resolved"
  /\ connectionState = "connected"
  /\ socket # 0 /\ sockets[socket].url = "ws://b"
  /\ previousUrl = "ws://b"
  /\ id = "abc"

\* C20: a connection attempt whose first frame is not a welcome command
\* (non-textual, unparsable, or any other JSON value), or whose transport
\* reports an error or closes before the welcome, rejects its connect() call,
\* detaches from the transport, and leaves the state closed and no transport
\* held.
NotWelcomeFrames == {f \in HandshakeFrames : ~(f.kind = "object" /\ f.cmd = "welcome")}
AttemptFails(s) ==
  \/ \E f \in NotWelcomeFrames : HandshakeEvent(s, f)
  \/ ErrorEvent(s) /\ sockets[s].ls = "attempt"
  \/ CloseEvent(s) /\ sockets[s].ls = "attempt"
C20_FailedAttemptCloses ==
  [][\A s \in SocketIds :
       AttemptFails(s) =>
         /\ op'.result = "rejected"
         /\ connectionState' = "closed"
         /\ socket' = 0
         /\ sockets'[s].ls = "none"]_vars

\* C21: a connection attempt whose first frame is a welcome carrying no
\* identity, or an empty identity, rejects its connect() call and leaves the
\* state closed; the client is never in state connected with an absent or
\* empty id.
NoIdentityWelcomes == {Welcome("noid"), Welcome("")}
C21_WelcomeNeedsIdentity ==
  /\ [][\A s \in SocketIds, f \in NoIdentityWelcomes :
          HandshakeEvent(s, f) => op'.result = "rejected" /\ connectionState' = "closed"]_vars
  /\ [](connectionState = "connected" => id \notin {"undefined", ""})

\* C22: when the transport of a connection attempt opens with a sub-protocol
\* other than Signal-Fire@3, the attempt closes the transport and detaches
\* from it, so that no later frame on it reaches the client, rejects its
\* connect() call and leaves the state closed.
C22_ProtocolMismatchAborts ==
  [][\A s \in SocketIds :
       (OpenEvent(s, NoProtocol) /\ sockets[s].ls = "attempt") =>
         /\ LET w == AttemptOpen([World EXCEPT !.sockets[s].rs = "OPEN"], s, NoProtocol)
            IN w.sockets[s].rs = "CLOSING" /\ w.sockets[s].ls = "none"
         /\ op'.result = "rejected"
         /\ connectionState' = "closed"
         /\ sockets'[s].ls = "none"
         /\ sockets'[s].rs # "OPEN"
         /\ socket' # s]_vars

\* C23: when a response frame arrives for the request of a sendDescription or
\* sendICECandidate call, the call rejects with the message of the response if
\* its ok flag is false and resolves if it is true, so a call resolves only
\* on ok = true; the step changes neither the connection state, the transport
\* held, the waiters nor any other request or entry of the PendingRequest map.
C23_SendStep(f) ==
  LET r == pendingResponses[f.id]
  IN (r # 0 /\ reqs[r].via \in {"sendDescription", "sendICECandidate"}) =>
       /\ f.ok = "false" => reqs'[r].outcome = "rejected" /\ reqs'[r].error = f.data
       /\ f.ok = "true" => reqs'[r].outcome = "resolved"
       /\ reqs'[r].outcome = "resolved" => f.ok = "true"
       /\ \A q \in ReqIds \ {r} : reqs'[q] = reqs[q]
       /\ pendingResponses' = [pendingResponses EXCEPT ![f.id] = 0]
       /\ UNCHANGED <<connectionState, socket, sockets, pendingRequests, sent>>
C23_RemoteRejected ==
  [][op'.name = "message" =>
       \A s \in Established, f \in SendFrames : MessageEvent(s, f) => C23_SendStep(f)]_vars

\* C24: sendDescription called with a description kind other than offer or
\* answer fails with the unsupported-type error and registers no waiter,
\* creates no PendingRequest entry, transmits nothing and changes nothing else.
C24_UnsupportedType ==
  [][\A r \in ReqIds, type \in DescriptionTypes \ {"offer", "answer"} :
       SendDescriptionCall(r, type) =>
         /\ op'.result = "unsupported-type"
         /\ emitted' = <<>>
         /\ UNCHANGED <<pendingRequests, pendingResponses, reqs, sent, sockets,
                        connectionState, socket, id, reconnectTimeout, orphanTimers,
                        transforms, hadError, reconnectAttemptsMade>>]_vars

C24_Witness ==
  /\ op.name = "sendDescription" /\ op.result = "unsupported-type"
  /\ connectionState = "connected" /\ socket # 0
  /\ \E i \in ReqIds : pendingResponses[i] # 0

\* C25: a well-formed frame received on an established connection has the
\* outcome its shape fixes.  A frame with a boolean ok is handled as a response
\* only (its entry, if any, is removed and resolved) and emits no event, even
\* if it has an origin.  Otherwise a frame with a string origin emits exactly
\* one event to the observers of the client: description {origin, description}
\* for cmd offer or answer, icecandidate {origin, candidate} for cmd ice, the
\* error 'expected cmd to be specified' for an empty or missing cmd, and an
\* event named after the cmd, carrying the message, for any other cmd; nothing
\* else changes.  A frame of neither shape emits nothing and changes nothing.
WellFormedFrames ==
  {f \in SteadyFrames :
     /\ f.kind = "object"
     /\ (f.ok = Absent /\ f.origin # Absent /\ f.cmd \in {"offer", "answer", "ice"})
          => f.data = DataOf(f.cmd)}
C25_ClientUnchanged ==
  UNCHANGED <<connectionState, socket, id, hadError, reconnectAttemptsMade,
              reconnectTimeout, pendingRequests, pendingResponses, sockets, reqs, sent>>
C25_Outcome(f) ==
  IF f.ok \in {"true", "false"}
  THEN /\ emitted' = <<>>
       /\ IF f.id # 0 /\ pendingResponses[f.id] # 0
          THEN /\ pendingResponses' = [pendingResponses EXCEPT ![f.id] = 0]
               /\ reqs'[pendingResponses[f.id]].status = "resolved"
               /\ reqs'[pendingResponses[f.id]].resp = <<f.ok, f.data>>
          ELSE C25_ClientUnchanged
  ELSE IF f.origin # Absent
  THEN /\ C25_ClientUnchanged
       /\ Len(emitted') = 1
       /\ emitted'[1].class = "CustomEvent"
       /\ IF f.cmd \in {"offer", "answer"}
          THEN /\ emitted'[1].name = "description"
               /\ emitted'[1].origin = f.origin
               /\ emitted'[1].payload = f.cmd
          ELSE IF f.cmd = "ice"
          THEN /\ emitted'[1].name = "icecandidate"
               /\ emitted'[1].origin = f.origin
               /\ emitted'[1].payload = "candidate"
          ELSE IF f.cmd \in {"", Absent}
          THEN emitted'[1] = ErrorEv("expected cmd to be specified")
          ELSE /\ emitted'[1].name = f.cmd
               /\ emitted'[1].detail = "message"
               /\ emitted'[1].origin = f.origin
               /\ emitted'[1].payload = f.data
  ELSE emitted' = <<>> /\ C25_ClientUnchanged
C25_FrameDispatch ==
  [][op'.name = "message" =>
       \A s \in Established, f \in WellFormedFrames : MessageEvent(s, f) => C25_Outcome(f)]_vars

\* C26: a non-textual frame, an unparsable frame or an inbound request without
\* cmd received on an established connection emits one error event to the
\* observers of the client and leaves the connection state, the transport
\* held, the PendingRequest map, the waiters, the requests, the had-error flag
\* and the reconnect counter unchanged, so later frames and requests are
\* handled as before.
FailureFrames ==
  {Binary, Garbage, Inbound(""), Frame("object", Absent, Absent, "peerB", 0, "payload")}
C26_FailureMessage(f) ==
  IF f.kind = "binary" THEN "expected a string"
  ELSE IF f.kind = "garbage" THEN "unable to parse message"
  ELSE "expected cmd to be specified"
C26_NonFatalFailures ==
  [][op'.name = "message" =>
       \A s \in Established, f \in FailureFrames :
         MessageEvent(s, f) =>
           /\ emitted' = <<ErrorEv(C26_FailureMessage(f))>>
           /\ UNCHANGED <<connectionState, socket, pendingResponses,
                          pendingRequests, reqs, sent, hadError, reconnectAttemptsMade,
                          reconnectTimeout, orphanTimers, transforms, id>>]_vars

\* C27: a waiter is released on the first transition to connected after it
\* was registered and is not held in the waiter collection afterwards: after
\* a step that changed the state to connected the waiter collection is empty,
\* and no request that has left the waiting state is still in it.
C27_WaitersReleasedOnce ==
  /\ (\E c \in Transitions : c[2] = "connected") => pendingRequests = <<>>
  /\ \A r \in ReqIds :
       r \in SeqRange(pendingRequests) => reqs[r].status = "waiting"

\* C29: every outstanding request owns the entry of its correlation id in the
\* PendingRequest map: the entry for the id of a request that was registered
\* and has not been resolved is the resolver of that request, so that no
\* registration replaced it.
C29_OneRequestPerId ==
  \A r \in ReqIds : reqs[r].status = "pending" => pendingResponses[reqs[r].id] = r

\* C30: the closure of the transport of an established connection on which
\* close() was not called leaves the PendingRequest map, the waiter collection
\* and every request as they were, and an entry pending after such a closure
\* can still be resolved on a later connection: while a request is pending on
\* a transport that has closed, a later connection is on its way (a reconnect
\* timer is pending, a reconnection or a connection attempt is in progress) or
\* connect() would be accepted.
LaterConnectionPossible ==
  \/ ~TimersIdle
  \/ \E s \in SocketIds : sockets[s].ls = "attempt"
  \/ connectionState \in {"new", "closed", "reconnecting"} /\ socket = 0
PendingOnLostTransport ==
  /\ \E r \in ReqIds : reqs[r].status = "pending" /\ pendingResponses[reqs[r].id] = r
  /\ Established = {}
  /\ closeCall = NoClose
C30_ClosureResolvesNothing ==
  /\ [][\A s \in SocketIds :
          UnexpectedClosure(s) => UNCHANGED <<pendingResponses, pendingRequests, reqs, sent>>]_vars
  /\ [](PendingOnLostTransport => LaterConnectionPossible)

\* C31: every request registered in the PendingRequest map was transmitted,
\* in the step that registered it, on a transport that was open: no request
\* that has been registered or resolved is missing from the frames sent, and
\* every frame was handed to an open transport.
C31_RegisteredIsSent ==
  /\ \A r \in ReqIds : reqs[r].status \in {"pending", "resolved"} => WasSent(r)
  /\ \A i \in 1..Len(sent) : sent[i].rs = "OPEN"

\* C33: the first frame a connection attempt receives settles it, whatever the
\* frame holds: the step resolves or rejects the connect() call and leaves a
\* state other than connecting.
C33_FirstFrameSettles ==
  [][op'.name = "handshake" =>
       \A s \in SocketIds, f \in HandshakeFrames :
         HandshakeEvent(s, f) =>
           /\ op'.result \in {"resolved", "rejected"}
           /\ connectionState' # "connecting"]_vars

\* C34: no event the observers of the client receive that is named after a
\* connection state, named connectionstatechange or named error is the echo of
\* an inbound request: every such event is the plain Event of a state
\* transition made in the step or the error event of a failure the client
\* detected, never an event carrying a received message.
ReservedNames == ConnectionStates \cup {"connectionstatechange", "error"}
C34_NoSpoofedNotifications ==
  \A i \in 1..Len(emitted) :
    emitted[i].name \in ReservedNames =>
      /\ emitted[i].detail # "message"
      /\ emitted[i].name # "error" =>
           /\ emitted[i].class = "Event"
           /\ Transitions # {}

C34_Witness ==
  /\ op.name = "message"
  /\ emitted = <<>>
  /\ \E i \in 1..Len(dispatchedOnSocket) :
       /\ dispatchedOnSocket[i].ev.name = "closed"
       /\ dispatchedOnSocket[i].ev.detail = "message"
       /\ dispatchedOnSocket[i].k = socket

====
